---- MODULE Spec2Model ----
(***************************************************************************)
(* Pascal-triangle animation of math-animations: the host page             *)
(* (MathSetsPage), the tab switch (App) and one PascalTriangleAnimation    *)
(* instance with its effects and its setInterval timer.                    *)
(*                                                                         *)
(* One action is one browser task: a user event handler or one timer       *)
(* callback, followed by the React renders, commits and effects it causes, *)
(* run to quiescence.  The renders committed inside one task are recorded, *)
(* in order, in `frames` (draw() runs after every committed render since   *)
(* `triangle` is a new array in every render), the onStepChange calls in   *)
(* `notified`, the onComplete calls in `completed`.                        *)
(*                                                                         *)
(* Speeds are counted in halves (1 = 0.5x ... 6 = 3x), so the delay        *)
(* 600 / speed is BaseIntervalHalves \div speedHalves.                     *)
(* A cell is <<row, col>>; the null active addition is <<>>.               *)
(* The host's progress text `${a} / ${b}` is the pair <<a, b>>, '' is <<>>.*)
(***************************************************************************)
EXTENDS Integers, Sequences, FiniteSets, TLC

VARIABLES
    activeTab,          \* App: activeTab
    animationSpeed,     \* MathSetsPage: animationSpeed (in halves)
    pascalRows,         \* MathSetsPage: pascalRows
    pascalPlaying,      \* MathSetsPage: pascalPlaying
    pascalStepTrigger,  \* MathSetsPage: pascalStepTrigger
    pascalProgress,     \* MathSetsPage: pascalProgress
    pascalResetKey,     \* MathSetsPage: pascalResetKey
    currentStep,        \* PascalTriangleAnimation: currentStep (-1 when no instance)
    activeAddition,     \* PascalTriangleAnimation: activeAddition
    lastStepTrigger,    \* PascalTriangleAnimation: lastStepTrigger.current
    intervals,          \* live setInterval timers
    lastOp,             \* the task that produced this state
    notified,           \* onStepChange calls made by that task, in order
    frames,             \* frames drawn by that task, in order
    completed,          \* onComplete calls made by that task
    runCompletions,     \* onComplete calls since currentStep was last -1 by (re)mount (saturates at 2)
    tickRun,            \* consecutive timer callbacks since a run of ticks began at currentStep = -1
    prevStep,           \* currentStep before that task
    prevPlaying,        \* pascalPlaying before that task
    playedAtEnd,        \* play was pressed at the last step and only ticks followed
    inclusion,          \* SetsInclusionAnimation: the render effect's run and the timers of earlier runs
    cellCalls,          \* the arguments of the stepToCell calls made by that task
    fnInput,            \* argument of a direct call of a pure function
    fnOutput            \* the function called and its result

vars == <<activeTab, animationSpeed, pascalRows, pascalPlaying, pascalStepTrigger,
          pascalProgress, pascalResetKey, currentStep, activeAddition,
          lastStepTrigger, intervals, lastOp, notified, frames, completed,
          runCompletions, tickRun, prevStep, prevPlaying, playedAtEnd,
          inclusion, cellCalls, fnInput, fnOutput>>

\* ---- bounds of the model ----
MaxRows == 4
MaxSpeedHalves == 3
MaxTrigger == 3
MaxKey == 2
MaxOutside == 2      \* how far outside the valid range the direct calls go
MaxNumerator == 6    \* largest numerator, denominator and integer part classified

\* ---- program constants ----
SliderMinRows == 2
SliderMaxRows == 10
DefaultRows == 6
DefaultSpeedHalves == 2
InclusionMaxSpeedHalves == 4
PascalMaxSpeedHalves == 6
BaseIntervalHalves == 1200

Tabs == {"inclusion", "variations", "pascal"}

Min(a, b) == IF a < b THEN a ELSE b
Max(a, b) == IF a > b THEN a ELSE b

RowChoices == SliderMinRows .. Min(MaxRows, SliderMaxRows)
PascalSpeedChoices == 1 .. Min(MaxSpeedHalves, PascalMaxSpeedHalves)
InclusionSpeedChoices == 1 .. Min(MaxSpeedHalves, InclusionMaxSpeedHalves)

\* ---- combinatorial model ----
\* mutant: the sum takes the left parent twice
RECURSIVE BuildRowLoop_LeftTwice(_, _, _, _)
BuildRowLoop_LeftTwice(triangle, r, c, row) ==
    IF c < r
    THEN BuildRowLoop_LeftTwice(triangle, r, c + 1,
                                Append(row, triangle[r][c] + triangle[r][c]))
    ELSE row

RECURSIVE BuildRowLoop(_, _, _, _)
BuildRowLoop(triangle, r, c, row) ==
    IF c < r
    THEN BuildRowLoop(triangle, r, c + 1,
                      Append(row, triangle[r][c] + triangle[r][c + 1]))
    ELSE row

RECURSIVE BuildLoop(_, _, _)
BuildLoop(triangle, r, n) ==
    IF r < n
    THEN BuildLoop(Append(triangle, Append(BuildRowLoop(triangle, r, 1, <<1>>), 1)), r + 1, n)
    ELSE triangle

\* buildPascal(n): rows are 1-indexed sequences here, triangle[r+1][c+1] is entry (r, c)
buildPascal(n) == BuildLoop(<< <<1>> >>, 1, n)

RECURSIVE TotalLoop(_, _, _)
TotalLoop(r, rows, count) ==
    IF r < rows THEN TotalLoop(r + 1, rows, count + r + 1) ELSE count

totalSteps(rows) == TotalLoop(0, rows, 0)

\* mutant: the inner loop runs while c < r, rows are one cell short
RECURSIVE StepScan_ShortRows(_, _, _, _)
StepScan_ShortRows(step, s, r, c) ==
    IF s = step THEN <<r, c>>
    ELSE IF c < r - 1 THEN StepScan_ShortRows(step, s + 1, r, c + 1)
    ELSE StepScan_ShortRows(step, s + 1, r + 1, 0)

RECURSIVE StepScan(_, _, _, _)
StepScan(step, s, r, c) ==
    IF s = step THEN <<r, c>>
    ELSE IF c < r THEN StepScan(step, s + 1, r, c + 1)
    ELSE StepScan(step, s + 1, r + 1, 0)

\* stepToCell(step) for step >= 0 (the loop does not end for step < 0)
stepToCell(step) == StepScan(step, 0, 0, 0)

\* sizes of the element that holds the drawing
ViewportWidths == {0, 360}
ViewportHeights == {0, 400}

\* ---- SetsInclusionAnimation: the render effect and its timers ----
\* One run of the effect: whether renderChart got past "if (width === 0) return",
\* its two setTimeout timers and its breathingInterval.
NoRun == [mounted |-> FALSE, rendered |-> FALSE, intro |-> "none", timeout |-> "none",
          breathing |-> FALSE]

\* introTotalDuration and introDelay in ms for a speed given in halves
IntroTotalDuration(speed) == 9400 \div speed + 200
BreathingDelay(speed) == 8000 \div speed + 1500

renderChart(run, width) ==
    IF width = 0 THEN run
    ELSE [run EXCEPT !.rendered = TRUE, !.intro = "pending", !.timeout = "pending"]

\* the effect body: observe the container and call renderChart once
InclusionEffect(width) == renderChart([NoRun EXCEPT !.mounted = TRUE], width)

\* The effect's cleanup: it disconnects the observer and clears breathingInterval
\* if it is set; neither setTimeout is cleared. Timers of cleaned-up runs are
\* kept as "at least one is pending / running".
InclusionCleanup(inc) ==
    [run |-> NoRun,
     staleIntro |-> inc.staleIntro \/ inc.run.intro = "pending",
     stalePending |-> inc.stalePending \/ inc.run.timeout = "pending",
     leaked |-> inc.leaked,
     ticked |-> "none"]

\* a change of isDark, speed, selectedSet or highlightedSets
InclusionRerun(inc, width) == [InclusionCleanup(inc) EXCEPT !.run = InclusionEffect(width)]

\* what a host render with tab2 and speed2 does to the component
InclusionCommit(tab2, speed2) ==
    IF activeTab = "inclusion" /\ tab2 # "inclusion" THEN {InclusionCleanup(inclusion)}
    ELSE IF activeTab # "inclusion" /\ tab2 = "inclusion"
    THEN {[inclusion EXCEPT !.run = InclusionEffect(w)] : w \in ViewportWidths}
    ELSE IF tab2 = "inclusion" /\ speed2 # animationSpeed
    THEN {InclusionRerun(inclusion, w) : w \in ViewportWidths}
    ELSE {inclusion}

\* the component as first mounted
InclusionMounts ==
    {[run |-> InclusionEffect(w), staleIntro |-> FALSE, stalePending |-> FALSE,
      leaked |-> FALSE, ticked |-> "none"] : w \in ViewportWidths}

\* ---- PascalTriangleAnimation ----
Props == [rows |-> pascalRows, isPlaying |-> pascalPlaying,
          stepTrigger |-> pascalStepTrigger, speed |-> animationSpeed]

Frame(rows, step, active) == [rows |-> rows, currentStep |-> step, activeAddition |-> active]

Notification(step, total) == <<step, total>>

\* ---- draw ----
RECURSIVE ArrowIdxLoop(_, _, _, _)
ArrowIdxLoop(triangle, rr, r, cellStepIdx) ==
    IF rr < r
    THEN ArrowIdxLoop(triangle, rr + 1, r, cellStepIdx + Len(triangle[rr + 1]))
    ELSE cellStepIdx

\* cellStepIdx of the arrow pass
ArrowCellStepIdx(triangle, r, c) == ArrowIdxLoop(triangle, 0, r, 0) + c

\* the arrows drawn into cell (r, c)
DrawArrows(triangle, r, c, step, active) ==
    LET cellStepIdx == ArrowCellStepIdx(triangle, r, c)
        isActive == active # <<>> /\ active[1] = r /\ active[2] = c
        arrow(from) == [from |-> from, to |-> <<r, c>>, emphasized |-> isActive,
                        cellStepIdx |-> cellStepIdx]
    IN IF cellStepIdx > step THEN <<>>
       ELSE (IF c > 0 THEN <<arrow(<<r - 1, c - 1>>)>> ELSE <<>>)
            \o (IF c < Len(triangle[r + 1]) - 1 THEN <<arrow(<<r - 1, c>>)>> ELSE <<>>)

RECURSIVE ArrowLoop(_, _, _, _, _, _, _)
ArrowLoop(rows, triangle, r, c, step, active, acc) ==
    IF r >= rows THEN acc
    ELSE IF c >= Len(triangle[r + 1])
    THEN ArrowLoop(rows, triangle, r + 1, 0, step, active, acc)
    ELSE ArrowLoop(rows, triangle, r, c + 1, step, active,
                   acc \o DrawArrows(triangle, r, c, step, active))

\* mutant: a cell counts as visible one step early
DrawCell_RevealsNext(triangle, r, c, stepIdx, step, active) ==
    LET isVisible == stepIdx <= step + 1
        isCurrentStep == stepIdx = step
        isActive == active # <<>> /\ active[1] = r /\ active[2] = c
        isOne == triangle[r + 1][c + 1] = 1
        style(plain) == IF isCurrentStep THEN "accent"
                        ELSE IF isActive THEN "addition"
                        ELSE IF isOne THEN "one" ELSE plain
    IN IF ~isVisible
       THEN [row |-> r, col |-> c, stepIdx |-> stepIdx, unknownMarker |-> TRUE,
             number |-> <<>>, glow |-> FALSE, fill |-> "placeholder",
             border |-> "none", numberColor |-> "dim", formula |-> <<>>]
       ELSE [row |-> r, col |-> c, stepIdx |-> stepIdx, unknownMarker |-> FALSE,
             number |-> <<triangle[r + 1][c + 1]>>, glow |-> isCurrentStep,
             fill |-> IF isCurrentStep THEN "current"
                      ELSE IF isActive THEN "active" ELSE "cellBg",
             border |-> style("cellBorder"), numberColor |-> style("text"),
             formula |-> IF isActive /\ isCurrentStep /\ r > 0 /\ c > 0 /\ c < r
                         THEN <<triangle[r][c], triangle[r][c + 1], triangle[r + 1][c + 1]>>
                         ELSE <<>>]

\* mutant: the formula is drawn for the active cell also when it is not the current step
DrawCell_FormulaWithoutCurrent(triangle, r, c, stepIdx, step, active) ==
    LET isVisible == stepIdx <= step
        isCurrentStep == stepIdx = step
        isActive == active # <<>> /\ active[1] = r /\ active[2] = c
        isOne == triangle[r + 1][c + 1] = 1
        style(plain) == IF isCurrentStep THEN "accent"
                        ELSE IF isActive THEN "addition"
                        ELSE IF isOne THEN "one" ELSE plain
    IN IF ~isVisible
       THEN [row |-> r, col |-> c, stepIdx |-> stepIdx, unknownMarker |-> TRUE,
             number |-> <<>>, glow |-> FALSE, fill |-> "placeholder",
             border |-> "none", numberColor |-> "dim", formula |-> <<>>]
       ELSE [row |-> r, col |-> c, stepIdx |-> stepIdx, unknownMarker |-> FALSE,
             number |-> <<triangle[r + 1][c + 1]>>, glow |-> isCurrentStep,
             fill |-> IF isCurrentStep THEN "current"
                      ELSE IF isActive THEN "active" ELSE "cellBg",
             border |-> style("cellBorder"), numberColor |-> style("text"),
             formula |-> IF isActive /\ r > 0 /\ c > 0 /\ c < r
                         THEN <<triangle[r][c], triangle[r][c + 1], triangle[r + 1][c + 1]>>
                         ELSE <<>>]

\* one cell of the cell pass; number is <<value>> when the value is drawn
DrawCell(triangle, r, c, stepIdx, step, active) ==
    LET isVisible == stepIdx <= step
        isCurrentStep == stepIdx = step
        isActive == active # <<>> /\ active[1] = r /\ active[2] = c
        isOne == triangle[r + 1][c + 1] = 1
        style(plain) == IF isCurrentStep THEN "accent"
                        ELSE IF isActive THEN "addition"
                        ELSE IF isOne THEN "one" ELSE plain
    IN IF ~isVisible
       THEN [row |-> r, col |-> c, stepIdx |-> stepIdx, unknownMarker |-> TRUE,
             number |-> <<>>, glow |-> FALSE, fill |-> "placeholder",
             border |-> "none", numberColor |-> "dim", formula |-> <<>>]
       ELSE [row |-> r, col |-> c, stepIdx |-> stepIdx, unknownMarker |-> FALSE,
             number |-> <<triangle[r + 1][c + 1]>>, glow |-> isCurrentStep,
             fill |-> IF isCurrentStep THEN "current"
                      ELSE IF isActive THEN "active" ELSE "cellBg",
             border |-> style("cellBorder"), numberColor |-> style("text"),
             formula |-> IF isActive /\ isCurrentStep /\ r > 0 /\ c > 0 /\ c < r
                         THEN <<triangle[r][c], triangle[r][c + 1], triangle[r + 1][c + 1]>>
                         ELSE <<>>]

RECURSIVE CellLoop(_, _, _, _, _, _, _, _)
CellLoop(rows, triangle, r, c, stepIdx, step, active, acc) ==
    IF r >= rows THEN acc
    ELSE IF c >= Len(triangle[r + 1])
    THEN CellLoop(rows, triangle, r + 1, 0, stepIdx, step, active, acc)
    ELSE CellLoop(rows, triangle, r, c + 1, stepIdx + 1, step, active,
                  Append(acc, DrawCell(triangle, r, c, stepIdx, step, active)))

\* the title text: step shown, total, percentage (Math.round of a positive number)
DrawTitle(step, total) ==
    <<Max(0, step + 1), total,
      IF step < 0 THEN 0 ELSE Min(100, (200 * (step + 1) + total) \div (2 * total))>>

\* draw() for one committed render
Draw(f) ==
    LET triangle == buildPascal(f.rows)
    IN [arrows |-> ArrowLoop(f.rows, triangle, 1, 0, f.currentStep, f.activeAddition, <<>>),
        cells |-> CellLoop(f.rows, triangle, 0, 0, 0, f.currentStep, f.activeAddition, <<>>),
        title |-> DrawTitle(f.currentStep, totalSteps(f.rows))]

\* mutant: the clamp Math.min(.., total - 1) is missing
ManualUpdater_NoClamp(prev, total) ==
    [next |-> prev + 1, complete |-> FALSE]

\* mutant: the manual step calls onComplete when it reaches the last step
ManualUpdater_Completes(prev, total) ==
    [next |-> Min(prev + 1, total - 1), complete |-> prev + 1 >= total - 1]

\* the setState updater of the manual step effect
ManualUpdater(prev, total) ==
    [next |-> Min(prev + 1, total - 1), complete |-> FALSE]

\* mutant: the end test is prev >= total
TickUpdater_OffByOne(prev, total) ==
    IF prev >= total
    THEN [next |-> prev, complete |-> TRUE]
    ELSE [next |-> prev + 1, complete |-> FALSE]

\* mutant: the callback advances twice
TickUpdater_Double(prev, total) ==
    IF prev >= total - 1
    THEN [next |-> prev, complete |-> TRUE]
    ELSE [next |-> prev + 2, complete |-> FALSE]

\* mutant: at the last step the callback starts over
TickUpdater_Loops(prev, total) ==
    IF prev >= total - 1
    THEN [next |-> -1, complete |-> TRUE]
    ELSE [next |-> prev + 1, complete |-> FALSE]

\* mutant: the callback never calls onComplete
TickUpdater_NeverCompletes(prev, total) ==
    IF prev >= total - 1
    THEN [next |-> prev, complete |-> FALSE]
    ELSE [next |-> prev + 1, complete |-> FALSE]

\* the setState updater of the interval callback; complete = onComplete was called
TickUpdater(prev, total) ==
    IF prev >= total - 1
    THEN [next |-> prev, complete |-> TRUE]
    ELSE [next |-> prev + 1, complete |-> FALSE]

\* mutant: the last cell of a row counts as interior
ActiveAdditionEffect_EdgeIncluded(step) ==
    IF step < 0 THEN <<>>
    ELSE LET cell == stepToCell(step)
         IN IF cell[1] > 0 /\ cell[2] > 0 /\ cell[2] <= cell[1] THEN cell ELSE <<>>

\* the effect that sets activeAddition for the current step
ActiveAdditionEffect(step) ==
    IF step < 0 THEN <<>>
    ELSE LET cell == stepToCell(step)
         IN IF cell[1] > 0 /\ cell[2] > 0 /\ cell[2] < cell[1] THEN cell ELSE <<>>

NewTimer(p) == [total |-> totalSteps(p.rows), delay |-> BaseIntervalHalves \div p.speed]

\* mutant: the effect returns no cleanup
AutoPlayCleanup_Leak(timers, p) == timers

\* cleanup of the auto-play effect: clearInterval of the timer its last run started
AutoPlayCleanup(timers, p) ==
    IF p.isPlaying THEN timers \ {NewTimer(p)} ELSE timers

\* body of the auto-play effect
AutoPlaySetup(timers, p) ==
    IF p.isPlaying THEN timers \cup {NewTimer(p)} ELSE timers

\* mutant: speed is missing from the dependency list
AutoPlayDepsChanged_NoSpeed(old, new) ==
    \/ old.isPlaying # new.isPlaying
    \/ totalSteps(old.rows) # totalSteps(new.rows)

\* dependency list of the auto-play effect (onComplete is a stable useCallback)
AutoPlayDepsChanged(old, new) ==
    \/ old.isPlaying # new.isPlaying
    \/ totalSteps(old.rows) # totalSteps(new.rows)
    \/ old.speed # new.speed

\* mutant: the report effect does not depend on currentStep
Settle_NoReport(rows, step0, active0, step1, active1) ==
    IF step1 = step0 /\ active1 = active0
    THEN [activeAddition |-> active0, notified |-> <<>>, frames |-> <<>>, calls |-> <<>>]
    ELSE IF step1 = step0
    THEN [activeAddition |-> active1, notified |-> <<>>,
          frames |-> <<Frame(rows, step1, active1)>>, calls |-> <<>>]
    ELSE LET a2 == ActiveAdditionEffect(step1)
         IN [activeAddition |-> a2, notified |-> <<>>,
             frames |-> <<Frame(rows, step1, active1), Frame(rows, step1, a2)>>,
             calls |-> IF step1 < 0 THEN <<>> ELSE <<step1>>]

\* The renders that follow a change of currentStep / activeAddition state from
\* (step0, active0) to (step1, active1): the report and active-addition effects
\* run after the first of them, and their setState calls cause one more.
Settle(rows, step0, active0, step1, active1) ==
    IF step1 = step0 /\ active1 = active0
    THEN [activeAddition |-> active0, notified |-> <<>>, frames |-> <<>>, calls |-> <<>>]
    ELSE IF step1 = step0
    THEN [activeAddition |-> active1, notified |-> <<>>,
          frames |-> <<Frame(rows, step1, active1)>>, calls |-> <<>>]
    ELSE LET a2 == ActiveAdditionEffect(step1)
         IN [activeAddition |-> a2,
             notified |-> <<Notification(step1, totalSteps(rows))>>,
             frames |-> <<Frame(rows, step1, active1), Frame(rows, step1, a2)>>,
             calls |-> IF step1 < 0 THEN <<>> ELSE <<step1>>]

\* mutant: the new instance starts from the state of the old one
Mount_KeepsState(timers, p) ==
    [currentStep |-> currentStep, activeAddition |-> activeAddition,
     lastStepTrigger |-> p.stepTrigger,
     intervals |-> AutoPlaySetup(timers, p),
     notified |-> <<Notification(currentStep, totalSteps(p.rows))>>,
     frames |-> <<Frame(p.rows, currentStep, activeAddition)>>, completed |-> 0,
     calls |-> IF currentStep < 0 THEN <<>> ELSE <<currentStep>>]

\* mutant: lastStepTrigger starts at 0 instead of at the stepTrigger prop
Mount_RefStartsAtZero(timers, p) ==
    LET total  == totalSteps(p.rows)
        ref    == 0
        manual == p.stepTrigger # ref
        upd    == ManualUpdater(-1, total)
        step1  == IF manual THEN upd.next ELSE -1
        st     == Settle(p.rows, -1, <<>>, step1, <<>>)
    IN [currentStep |-> step1, activeAddition |-> st.activeAddition,
        lastStepTrigger |-> p.stepTrigger,
        intervals |-> AutoPlaySetup(timers, p),
        notified |-> <<Notification(-1, total)>> \o st.notified,
        frames |-> <<Frame(p.rows, -1, <<>>)>> \o st.frames,
        completed |-> 0, calls |-> st.calls]

\* first render of a new instance and its mount effects; lastStepTrigger is
\* useRef(stepTrigger), so the manual-step effect finds nothing new
Mount(timers, p) ==
    LET total  == totalSteps(p.rows)
        ref    == p.stepTrigger
        manual == p.stepTrigger # ref
        upd    == ManualUpdater(-1, total)
        step1  == IF manual THEN upd.next ELSE -1
        st     == Settle(p.rows, -1, <<>>, step1, <<>>)
    IN [currentStep |-> step1, activeAddition |-> st.activeAddition,
        lastStepTrigger |-> p.stepTrigger,
        intervals |-> AutoPlaySetup(timers, p),
        notified |-> <<Notification(-1, total)>> \o st.notified,
        frames |-> <<Frame(p.rows, -1, <<>>)>> \o st.frames,
        completed |-> 0, calls |-> st.calls]

\* re-render of the mounted instance with new props, and the effects whose
\* dependencies changed
Update(old, new) ==
    LET rowsCh == old.rows # new.rows
        totCh  == totalSteps(old.rows) # totalSteps(new.rows)
        total  == totalSteps(new.rows)
        manual == (old.stepTrigger # new.stepTrigger \/ totCh)
                  /\ new.stepTrigger # lastStepTrigger
        s0     == IF rowsCh THEN -1 ELSE currentStep
        upd    == ManualUpdater(s0, total)
        step1  == IF manual THEN upd.next ELSE s0
        act1   == IF rowsCh THEN <<>> ELSE activeAddition
        st     == Settle(new.rows, currentStep, activeAddition, step1, act1)
    IN [currentStep |-> step1, activeAddition |-> st.activeAddition,
        lastStepTrigger |-> IF manual THEN new.stepTrigger ELSE lastStepTrigger,
        intervals |-> IF AutoPlayDepsChanged(old, new)
                      THEN AutoPlaySetup(AutoPlayCleanup(intervals, old), new)
                      ELSE intervals,
        notified |-> (IF totCh THEN <<Notification(currentStep, total)>> ELSE <<>>)
                     \o st.notified,
        frames |-> <<Frame(new.rows, currentStep, activeAddition)>> \o st.frames,
        completed |-> IF manual /\ upd.complete THEN 1 ELSE 0, calls |-> st.calls]

NoInstance(timers) ==
    [currentStep |-> -1, activeAddition |-> <<>>, lastStepTrigger |-> 0,
     intervals |-> timers, notified |-> <<>>, frames |-> <<>>, completed |-> 0,
     calls |-> <<>>]

\* mutant: the element has no key, a row-count change re-renders the same instance
Commit_NoKey(tab2, key2, new) ==
    LET was == activeTab = "pascal"
        is  == tab2 = "pascal"
        cleaned == IF was THEN AutoPlayCleanup(intervals, Props) ELSE intervals
    IN IF ~is THEN NoInstance(cleaned)
       ELSE IF ~was THEN Mount(cleaned, new)
       ELSE Update(Props, new)

\* React reconciliation of <PascalTriangleAnimation key={pascalResetKey} .../>
Commit(tab2, key2, new) ==
    LET was == activeTab = "pascal"
        is  == tab2 = "pascal"
        cleaned == IF was THEN AutoPlayCleanup(intervals, Props) ELSE intervals
    IN IF ~is THEN NoInstance(cleaned)
       ELSE IF ~was \/ key2 # pascalResetKey THEN Mount(cleaned, new)
       ELSE Update(Props, new)

\* ---- MathSetsPage ----
\* mutant: the text shows step instead of step + 1
ProgressText_NoOffset(step, total) == <<Max(0, step), total>>

\* handlePascalStepChange
ProgressText(step, total) == <<Max(0, step + 1), total>>

\* mutant: the completion handler leaves playback running
handlePascalComplete_Noop(playing) == playing

\* handlePascalComplete: the value it gives pascalPlaying
handlePascalComplete(playing) == FALSE

\* the instance and observation variables after a task whose commit is r
Effects(op, commit) ==
    \E r \in {commit} :
        /\ currentStep' = r.currentStep
        /\ activeAddition' = r.activeAddition
        /\ lastStepTrigger' = r.lastStepTrigger
        /\ intervals' = r.intervals
        /\ notified' = r.notified
        /\ frames' = r.frames
        /\ pascalProgress' = IF r.notified = <<>> THEN pascalProgress
                             ELSE LET last == r.notified[Len(r.notified)]
                                  IN ProgressText(last[1], last[2])
        /\ lastOp' = op
        /\ completed' = r.completed
        /\ cellCalls' = r.calls
        /\ inclusion' \in InclusionCommit(activeTab', animationSpeed')
        /\ prevStep' = currentStep
        /\ prevPlaying' = pascalPlaying
        /\ runCompletions' = IF op \in {"navigate", "reset", "rows", "headerReset"}
                             THEN 0 ELSE Min(runCompletions + r.completed, 2)
        /\ tickRun' = IF op = "tick" /\ (tickRun > 0 \/ currentStep = -1) THEN tickRun + 1 ELSE 0
        /\ playedAtEnd' = \/ op = "play" /\ currentStep = totalSteps(pascalRows) - 1
                          \/ op = "tick" /\ playedAtEnd
        /\ UNCHANGED <<fnInput, fnOutput>>

Host(op, tab2, speed2, rows2, playing2, trigger2, key2) ==
    /\ activeTab' = tab2
    /\ animationSpeed' = speed2
    /\ pascalRows' = rows2
    /\ pascalPlaying' = playing2
    /\ pascalStepTrigger' = trigger2
    /\ pascalResetKey' = key2
    /\ Effects(op, Commit(tab2, key2, [rows |-> rows2, isPlaying |-> playing2,
                                       stepTrigger |-> trigger2, speed |-> speed2]))

Init ==
    /\ activeTab = "inclusion"
    /\ animationSpeed = DefaultSpeedHalves
    /\ pascalRows = DefaultRows
    /\ pascalPlaying = FALSE
    /\ pascalStepTrigger = 0
    /\ pascalProgress = <<>>
    /\ pascalResetKey = 0
    /\ currentStep = -1
    /\ activeAddition = <<>>
    /\ lastStepTrigger = 0
    /\ intervals = {}
    /\ lastOp = "init"
    /\ notified = <<>>
    /\ frames = <<>>
    /\ completed = 0
    /\ runCompletions = 0
    /\ tickRun = 0
    /\ prevStep = -1
    /\ prevPlaying = FALSE
    /\ playedAtEnd = FALSE
    /\ cellCalls = <<>>
    /\ inclusion \in InclusionMounts
    /\ fnInput = [n |-> DefaultRows, r |-> 0, c |-> 0]
    /\ fnOutput = [fn |-> "none", value |-> <<>>]

\* LabLayout tab buttons -> App.setActiveTab
Navigate ==
    \E p \in Tabs \ {activeTab} :
        Host("navigate", p, animationSpeed, pascalRows, pascalPlaying,
             pascalStepTrigger, pascalResetKey)

\* play/pause button while Stopped
Play ==
    /\ activeTab = "pascal"
    /\ ~pascalPlaying
    /\ Host("play", activeTab, animationSpeed, pascalRows, ~pascalPlaying,
            pascalStepTrigger, pascalResetKey)

\* play/pause button while Playing
Pause ==
    /\ activeTab = "pascal"
    /\ pascalPlaying
    /\ Host("pause", activeTab, animationSpeed, pascalRows, ~pascalPlaying,
            pascalStepTrigger, pascalResetKey)

\* mutant: the step button leaves pascalPlaying as it is
StepClick_KeepsPlaying ==
    /\ activeTab = "pascal"
    /\ pascalStepTrigger < MaxTrigger
    /\ Host("step", activeTab, animationSpeed, pascalRows, pascalPlaying,
            pascalStepTrigger + 1, pascalResetKey)

\* step button
StepClick ==
    /\ activeTab = "pascal"
    /\ pascalStepTrigger < MaxTrigger
    /\ Host("step", activeTab, animationSpeed, pascalRows, FALSE,
            pascalStepTrigger + 1, pascalResetKey)

\* reset button of the control panel
ResetClick ==
    /\ activeTab = "pascal"
    /\ pascalResetKey < MaxKey
    /\ Host("reset", activeTab, animationSpeed, pascalRows, FALSE,
            pascalStepTrigger, pascalResetKey + 1)

\* onChange of the row-count slider for the value n: what it writes
RowsHandler(n) == [pascalRows |-> n, pascalPlaying |-> FALSE, pascalResetKey |-> pascalResetKey + 1]

\* row-count slider (an <input type="range" min=2 max=10>)
RowsChange ==
    /\ activeTab = "pascal"
    /\ pascalResetKey < MaxKey
    /\ \E n \in RowChoices \ {pascalRows} :
           LET w == RowsHandler(n)
           IN Host("rows", activeTab, animationSpeed, w.pascalRows, w.pascalPlaying,
                   pascalStepTrigger, w.pascalResetKey)

\* speed sliders (Pascal controls and inclusion controls share animationSpeed)
SpeedChange ==
    /\ activeTab \in {"pascal", "inclusion"}
    /\ \E s \in (IF activeTab = "pascal" THEN PascalSpeedChoices ELSE InclusionSpeedChoices)
                \ {animationSpeed} :
           Host("speed", activeTab, s, pascalRows, pascalPlaying,
                pascalStepTrigger, pascalResetKey)

\* "Réinitialiser" in the page header
HeaderReset ==
    /\ pascalResetKey < MaxKey
    /\ Host("headerReset", activeTab, DefaultSpeedHalves, DefaultRows, FALSE,
            pascalStepTrigger, pascalResetKey + 1)

\* one callback of a live interval timer
Tick ==
    \E t \in intervals :
        /\ activeTab = "pascal"
        /\ LET u == TickUpdater(currentStep, t.total)
               \* onComplete -> handlePascalComplete -> setPascalPlaying(false)
               playing2 == IF u.complete THEN handlePascalComplete(pascalPlaying)
                           ELSE pascalPlaying
               st == Settle(pascalRows, currentStep, activeAddition, u.next, activeAddition)
               \* the updater's result and the new isPlaying prop are rendered together
               up == Update(Props, [Props EXCEPT !.isPlaying = playing2])
               r == IF playing2 # pascalPlaying
                    THEN [up EXCEPT !.currentStep = u.next,
                                    !.activeAddition = st.activeAddition,
                                    !.notified = up.notified \o st.notified,
                                    !.calls = up.calls \o st.calls,
                                    !.frames = IF st.frames = <<>> THEN up.frames
                                               ELSE st.frames]
                    ELSE [currentStep |-> u.next, activeAddition |-> st.activeAddition,
                          lastStepTrigger |-> lastStepTrigger, intervals |-> intervals,
                          notified |-> st.notified, frames |-> st.frames,
                          completed |-> 0, calls |-> st.calls]
           IN /\ pascalPlaying' = playing2
              /\ UNCHANGED <<activeTab, animationSpeed, pascalRows, pascalStepTrigger,
                             pascalResetKey>>
              /\ Effects("tick", [r EXCEPT !.completed = IF u.complete THEN 1 ELSE 0])

Next ==
    \/ Navigate
    \/ Play
    \/ Pause
    \/ StepClick
    \/ ResetClick
    \/ RowsChange
    \/ SpeedChange
    \/ HeaderReset
    \/ Tick

Spec == Init /\ [][Next]_vars

\* the Pascal tab button of LabLayout
OpenPascal ==
    /\ activeTab # "pascal"
    /\ Host("navigate", "pascal", animationSpeed, pascalRows, pascalPlaying,
            pascalStepTrigger, pascalResetKey)

\* the tasks of a session that stays on the Pascal tab at one speed
LiveNext ==
    \/ OpenPascal
    \/ Play
    \/ Pause
    \/ StepClick
    \/ ResetClick
    \/ RowsChange
    \/ Tick

\* the browser keeps firing a live interval timer
LiveSpec == Init /\ [][LiveNext]_vars /\ WF_vars(Tick)

\* the cells and the arrows that draw() puts on the canvas for frame f
DrawnCells(f) == LET cells == Draw(f).cells IN {cells[j] : j \in 1 .. Len(cells)}
DrawnArrows(f) == LET arrows == Draw(f).arrows IN {arrows[j] : j \in 1 .. Len(arrows)}

\* ---- direct calls of the pure functions ----
FnInputs ==
    {[n |-> n, r |-> r, c |-> c] : n \in 1 .. SliderMaxRows,
                                   r \in 0 .. SliderMaxRows - 1,
                                   c \in 0 .. SliderMaxRows - 1}

FnInit ==
    /\ activeTab = "inclusion"
    /\ animationSpeed = DefaultSpeedHalves
    /\ pascalRows = DefaultRows
    /\ pascalPlaying = FALSE
    /\ pascalStepTrigger = 0
    /\ pascalProgress = <<>>
    /\ pascalResetKey = 0
    /\ currentStep = -1
    /\ activeAddition = <<>>
    /\ lastStepTrigger = 0
    /\ intervals = {}
    /\ lastOp = "init"
    /\ notified = <<>>
    /\ frames = <<>>
    /\ completed = 0
    /\ runCompletions = 0
    /\ tickRun = 0
    /\ prevStep = -1
    /\ prevPlaying = FALSE
    /\ playedAtEnd = FALSE
    /\ cellCalls = <<>>
    /\ inclusion \in InclusionMounts
    /\ fnInput \in {i \in FnInputs : i.c <= i.r /\ i.r < i.n}
    /\ fnOutput = [fn |-> "none", value |-> <<>>]

Return(fn, value) ==
    /\ fnOutput.fn = "none"
    /\ fnOutput' = [fn |-> fn, value |-> value]
    /\ UNCHANGED <<activeTab, animationSpeed, pascalRows, pascalPlaying, pascalStepTrigger,
                   pascalProgress, pascalResetKey, currentStep, activeAddition,
                   lastStepTrigger, intervals, lastOp, notified, frames, completed,
                   runCompletions, tickRun, prevStep, prevPlaying, playedAtEnd, cellCalls,
                   inclusion, fnInput>>

\* the step that row-major numbering gives to cell (r, c)
RowMajor(r, c) == (r * (r + 1)) \div 2 + c

CallTotalSteps == Return("totalSteps", totalSteps(fnInput.n))

CallBuildPascal == Return("buildPascal", buildPascal(fnInput.n))

CallStepToCell == Return("stepToCell", stepToCell(RowMajor(fnInput.r, fnInput.c)))

\* draw() of the complete n-row triangle: the indices both passes give to cell (r, c)
CallDraw ==
    \E d \in {Draw(Frame(fnInput.n, totalSteps(fnInput.n) - 1, <<>>))} :
        LET cell == <<fnInput.r, fnInput.c>>
        IN Return("draw",
                  [cellPass |-> {d.cells[i].stepIdx : i \in {j \in 1 .. Len(d.cells) :
                                     <<d.cells[j].row, d.cells[j].col>> = cell}},
                   arrowPass |-> {d.arrows[i].cellStepIdx : i \in {j \in 1 .. Len(d.arrows) :
                                     d.arrows[j].to = cell}}])

FnNext ==
    \/ CallTotalSteps
    \/ CallBuildPascal
    \/ CallStepToCell
    \/ CallDraw

FnSpec == FnInit /\ [][FnNext]_vars

\* ---- direct calls with arguments from outside the valid ranges ----
Abs(x) == IF x < 0 THEN -x ELSE x

\* a call of stepToCell: the loop ends only when the counter s, which starts at
\* 0 and grows, meets step
stepToCellCall(step) ==
    IF step < 0 THEN [outcome |-> "no return", cell |-> <<>>]
    ELSE [outcome |-> "returns", cell |-> stepToCell(step)]

\* the cell size of the layout (floor of the clamped quotient)
CellSize(w, h, rows) == Min(48, Max(32, Min(w \div (rows + 2), (h - 60) \div (rows + 1))))

\* draw() on a canvas whose parent is w by h: the canvas is resized and every
\* pass runs whatever w and h are
DrawViewport(w, h, f) ==
    [canvas |-> <<w, h>>, background |-> <<0, 0, w, h>>,
     cellSize |-> CellSize(w, h, f.rows), commands |-> Draw(f)]

RECURSIVE gcd(_, _)
gcd(a, b) == IF b = 0 THEN a ELSE gcd(b, a % b)

\* while (d % p === 0) d /= p
RECURSIVE StripFactor(_, _)
StripFactor(d, p) == IF d % p = 0 THEN StripFactor(d \div p, p) ELSE d

RECURSIVE FactorCount(_, _)
FactorCount(d, p) == IF d % p = 0 THEN 1 + FactorCount(d \div p, p) ELSE 0

\* The possible lengths of the part of String(num / den) after the '.': <<>>
\* when the quotient is an integer (no '.'), the exact number of decimals when
\* the expansion ends, and 15 to 17 digits of a rounded expansion otherwise.
DecStrDecimals(num, den) ==
    IF num % Abs(den) = 0 THEN {<<>>}
    ELSE LET d == Abs(den) \div gcd(Abs(num), Abs(den))
         IN IF StripFactor(StripFactor(d, 2), 5) = 1
            THEN {<<Max(FactorCount(d, 2), FactorCount(d, 5))>>}
            ELSE {<<15>>, <<16>>, <<17>>}

\* classifyNumber for "num/den"; decimals is the length of decStr.split('.')[1],
\* <<>> when that is undefined (undefined <= 15 is false)
classifyFraction(num, den, decimals) ==
    IF den = 0 THEN <<>>
    ELSE LET d == Abs(den) \div gcd(Abs(num), Abs(den))
             sets1 == IF decimals # <<>> /\ decimals[1] <= 15
                         /\ StripFactor(StripFactor(d, 2), 5) = 1
                      THEN <<"R", "Q", "D">> ELSE <<"R", "Q">>
             isInteger == num % Abs(den) = 0
             nonNegative == num * den >= 0
         IN IF ~isInteger THEN sets1
            ELSE IF nonNegative THEN sets1 \o <<"Z", "N">> ELSE Append(sets1, "Z")

\* classifyNumber for a decimal numeral: sign, integer part, digits after the
\* '.' (<<>> when there is no '.')
classifyDecimal(neg, int, frac) ==
    LET isInteger == \A i \in 1 .. Len(frac) : frac[i] = 0
        decParts == IF frac = <<>> THEN 1 ELSE 2
        nonNegative == ~neg \/ (int = 0 /\ isInteger)
        sets1 == IF decParts <= 2 THEN <<"R", "Q", "D">> ELSE <<"R", "Q">>
    IN IF ~isInteger THEN sets1
       ELSE IF nonNegative THEN sets1 \o <<"Z", "N">> ELSE Append(sets1, "Z")

classifyNumber(input, decimals) ==
    IF input.kind = "empty" THEN <<>>
    ELSE IF input.kind = "irrational" THEN <<"R">>
    ELSE IF input.kind = "fraction" THEN classifyFraction(input.num, input.den, decimals)
    ELSE classifyDecimal(input.neg, input.int, input.frac)

StepToCellArgs ==
    {[call |-> "stepToCell", n |-> n, step |-> step] :
        n \in 1 .. MaxRows + 1, step \in -MaxOutside .. totalSteps(MaxRows + 1) + MaxOutside}

SetRowsArgs == {[call |-> "setRows", n |-> n] : n \in -MaxOutside .. SliderMaxRows}

DrawArgs ==
    {[call |-> "draw", n |-> n, step |-> step, w |-> w, h |-> h] :
        n \in SliderMinRows .. MaxRows, step \in -1 .. totalSteps(MaxRows) - 1,
        w \in ViewportWidths, h \in ViewportHeights}

ClassifyArgs ==
    {[call |-> "classify", kind |-> "fraction", num |-> num, den |-> den] :
        num \in -MaxNumerator .. MaxNumerator, den \in -MaxNumerator .. MaxNumerator}
    \cup {[call |-> "classify", kind |-> "decimal", neg |-> neg, int |-> int, frac |-> frac] :
            neg \in BOOLEAN, int \in 0 .. MaxNumerator,
            frac \in {<<>>, <<0>>, <<5>>, <<2, 5>>}}
    \cup {[call |-> "classify", kind |-> k] : k \in {"empty", "irrational"}}

CallInit ==
    /\ activeTab = "inclusion"
    /\ animationSpeed = DefaultSpeedHalves
    /\ pascalRows = DefaultRows
    /\ pascalPlaying = FALSE
    /\ pascalStepTrigger = 0
    /\ pascalProgress = <<>>
    /\ pascalResetKey = 0
    /\ currentStep = -1
    /\ activeAddition = <<>>
    /\ lastStepTrigger = 0
    /\ intervals = {}
    /\ lastOp = "init"
    /\ notified = <<>>
    /\ frames = <<>>
    /\ completed = 0
    /\ runCompletions = 0
    /\ tickRun = 0
    /\ prevStep = -1
    /\ prevPlaying = FALSE
    /\ playedAtEnd = FALSE
    /\ cellCalls = <<>>
    /\ inclusion \in InclusionMounts
    /\ fnInput \in {a \in StepToCellArgs : a.step <= totalSteps(a.n) - 1 + MaxOutside}
                   \cup SetRowsArgs
                   \cup {a \in DrawArgs : a.step <= totalSteps(a.n) - 1}
                   \cup ClassifyArgs
    /\ fnOutput = [fn |-> "none", value |-> <<>>]

CallStepToCellAt ==
    /\ fnInput.call = "stepToCell"
    /\ Return("stepToCell", stepToCellCall(fnInput.step))

\* the row-count handler run with the value n, and what the instance mounted
\* for it computes; no path of it reports anything to the caller
CallSetRows ==
    /\ fnInput.call = "setRows"
    /\ Return("setRows", [reported |-> FALSE, host |-> RowsHandler(fnInput.n),
                          triangle |-> buildPascal(fnInput.n),
                          total |-> totalSteps(fnInput.n)])

CallDrawViewport ==
    /\ fnInput.call = "draw"
    /\ \E active \in {ActiveAdditionEffect(fnInput.step)} :
           Return("draw", DrawViewport(fnInput.w, fnInput.h,
                                       Frame(fnInput.n, fnInput.step, active)))

CallClassify ==
    /\ fnInput.call = "classify"
    /\ \E decimals \in (IF fnInput.kind = "fraction" /\ fnInput.den # 0
                        THEN DecStrDecimals(fnInput.num, fnInput.den) ELSE {<<>>}) :
           Return("classify", classifyNumber(fnInput, decimals))

CallNext ==
    \/ CallStepToCellAt
    \/ CallSetRows
    \/ CallDrawViewport
    \/ CallClassify

CallSpec == CallInit /\ [][CallNext]_vars

\* ---- the timers of SetsInclusionAnimation ----
InclusionOnly(inc2) ==
    /\ inclusion' = inc2
    /\ UNCHANGED <<activeTab, animationSpeed, pascalRows, pascalPlaying, pascalStepTrigger,
                   pascalProgress, pascalResetKey, currentStep, activeAddition,
                   lastStepTrigger, intervals, lastOp, notified, frames, completed,
                   runCompletions, tickRun, prevStep, prevPlaying, playedAtEnd, cellCalls,
                   fnInput, fnOutput>>

\* click on a circle once the intro is over: setSelectedSet
SetClick ==
    /\ activeTab = "inclusion"
    /\ inclusion.run.rendered
    /\ inclusion.run.intro = "fired"
    /\ \E w \in ViewportWidths : InclusionOnly(InclusionRerun(inclusion, w))

\* handleClassify: setHighlightedSets with a new array
Classify ==
    /\ activeTab = "inclusion"
    /\ inclusion.run.mounted
    /\ \E w \in ViewportWidths : InclusionOnly(InclusionRerun(inclusion, w))

\* the ResizeObserver callback of the live run
ResizeObserved ==
    /\ inclusion.run.mounted
    /\ ~inclusion.run.rendered
    /\ \E w \in ViewportWidths \ {0} :
           InclusionOnly([inclusion EXCEPT !.run = renderChart(@, w)])

\* the timeout that ends the intro, of the live run or of a cleaned-up one
IntroTimeout ==
    \/ /\ inclusion.run.intro = "pending"
       /\ \/ inclusion.run.timeout # "pending"
          \/ IntroTotalDuration(animationSpeed) <= BreathingDelay(animationSpeed)
       /\ InclusionOnly([inclusion EXCEPT !.run.intro = "fired"])
    \/ /\ inclusion.staleIntro
       /\ \E more \in BOOLEAN : InclusionOnly([inclusion EXCEPT !.staleIntro = more])

\* setTimeout(startBreathing, introDelay) fires: breathingInterval = setInterval(...)
StartBreathing ==
    \/ /\ inclusion.run.timeout = "pending"
       /\ \/ inclusion.run.intro # "pending"
          \/ BreathingDelay(animationSpeed) < IntroTotalDuration(animationSpeed)
       /\ InclusionOnly([inclusion EXCEPT !.run.timeout = "fired", !.run.breathing = TRUE])
    \/ /\ inclusion.stalePending
       /\ \E more \in BOOLEAN :
              InclusionOnly([inclusion EXCEPT !.stalePending = more, !.leaked = TRUE])

\* one callback of a breathing interval
BreathingTick ==
    \/ /\ inclusion.run.breathing
       /\ InclusionOnly([inclusion EXCEPT !.ticked = "current"])
    \/ /\ inclusion.leaked
       /\ InclusionOnly([inclusion EXCEPT !.ticked = "leaked"])

InclusionNext ==
    \/ Navigate
    \/ SpeedChange
    \/ SetClick
    \/ Classify
    \/ ResizeObserved
    \/ IntroTimeout
    \/ StartBreathing
    \/ BreathingTick

InclusionSpec == Init /\ [][InclusionNext]_vars

\* ---- properties ----
LastTotal == totalSteps(pascalRows)

\* C1: the step index always satisfies -1 <= stepIndex <= totalSteps(n) - 1 for
\* the current row count n, and a manual step or tick attempted at
\* totalSteps(n) - 1 leaves it unchanged.
C1_StepIndexInRange ==
    /\ -1 <= currentStep
    /\ currentStep <= LastTotal - 1
    /\ (lastOp \in {"step", "tick"} /\ prevStep = LastTotal - 1) => currentStep = prevStep

C1_Witness ==
    /\ lastOp = "step"
    /\ prevStep = LastTotal - 1
    /\ currentStep = LastTotal - 1

C3_AtMostOncePerRun ==
    /\ runCompletions <= 1
    /\ completed > 0 => lastOp = "tick"

\* C3 amended: every completion signal is emitted by a tick fired while Playing
\* and leaves playback Stopped with no timer live, so it is emitted at most once
\* per period of Playing (a run can hold several such periods).
C3_AtMostOncePerPlaying ==
    [][completed' > 0 =>
          /\ lastOp' = "tick"
          /\ completed' = 1
          /\ pascalPlaying
          /\ ~pascalPlaying'
          /\ intervals' = {}]_vars

C3_Witness ==
    /\ runCompletions = 2
    /\ completed = 1
    /\ lastOp = "tick"

\* C4: at most one timer is live, a live timer means that the instance is mounted
\* and playback is Playing and the timer was started for the current row
\* count, and every tick fires from a state in which playback was Playing.
C4_NoTickAfterCancel ==
    /\ Cardinality(intervals) <= 1
    /\ intervals # {} => (activeTab = "pascal" /\ pascalPlaying)
    /\ \A t \in intervals : t.total = LastTotal
    /\ lastOp = "tick" => prevPlaying

C4_Witness ==
    /\ lastOp \in {"pause", "step", "reset", "rows", "navigate"}
    /\ prevPlaying
    /\ prevStep >= 0
    /\ intervals = {}

\* C5: a row-count change leaves stepIndex = -1, playback Stopped, no active
\* addition, no timer, and one frame drawn for the new row count; no frame is
\* ever drawn, and no state reached, in which stepIndex or the active addition
\* lies outside the triangle of the current row count.
C5_RowsChangeResets ==
    /\ lastOp = "rows" =>
           /\ currentStep = -1
           /\ ~pascalPlaying
           /\ activeAddition = <<>>
           /\ intervals = {}
           /\ frames = <<[rows |-> pascalRows, currentStep |-> -1, activeAddition |-> <<>>]>>
    /\ activeAddition # <<>> => activeAddition[1] < pascalRows
    /\ \A i \in 1 .. Len(frames) :
           /\ frames[i].rows = pascalRows
           /\ frames[i].currentStep <= LastTotal - 1
           /\ frames[i].activeAddition # <<>> => frames[i].activeAddition[1] < pascalRows

C5_Witness ==
    /\ lastOp = "rows"
    /\ prevPlaying
    /\ prevStep >= LastTotal

\* C6: every change of stepIndex is an increase by exactly 1, made by a manual
\* step or a tick, or a return to -1, made by reset, row-count change, header
\* reset or the replacement of the instance on tab navigation.
C6_StepByOneOrReset ==
    [][currentStep' # currentStep =>
          \/ /\ currentStep' = currentStep + 1
             /\ lastOp' \in {"step", "tick"}
          \/ /\ currentStep' = -1
             /\ lastOp' \in {"reset", "rows", "headerReset", "navigate"}]_vars

C6_Witness ==
    /\ lastOp = "tick"
    /\ prevStep = 3
    /\ currentStep = 4

\* C7: in every drawn frame the active addition is the cell addressed by the
\* frame's stepIndex when that cell is interior, and absent otherwise.
C7_ActiveAdditionMatchesStep ==
    \A i \in 1 .. Len(frames) :
        LET f == frames[i]
            cell == stepToCell(f.currentStep)
        IN IF f.currentStep >= 0 /\ 0 < cell[2] /\ cell[2] < cell[1]
           THEN f.activeAddition = cell
           ELSE f.activeAddition = <<>>

\* C8 as claimed: every manual step or tick is followed by a progress
\* notification.
C8_AlwaysNotifies ==
    lastOp \in {"step", "tick"} => notified # <<>>

\* C8 amended: a manual step or tick that changes stepIndex is followed by
\* exactly one progress notification, carrying the new stepIndex; one made at
\* the terminal step, which leaves stepIndex unchanged, is followed by none.
C8_NotifiesOnChange ==
    lastOp \in {"step", "tick"} =>
        IF currentStep # prevStep
        THEN notified = << <<currentStep, LastTotal>> >>
        ELSE notified = <<>> /\ currentStep = LastTotal - 1

C8_Witness ==
    /\ lastOp = "step"
    /\ currentStep = prevStep
    /\ notified = <<>>

\* C9: every progress notification carries the stepIndex and totalSteps(n) of
\* the state the task ends in; a row-count change emits exactly (-1,
\* totalSteps(n)); while the animation is mounted the host's progress text is
\* max(0, stepIndex + 1) / totalSteps(n).
C9_NotificationConsistent ==
    /\ \A i \in 1 .. Len(notified) : notified[i] = <<currentStep, LastTotal>>
    /\ lastOp = "rows" => notified = << <<-1, LastTotal>> >>
    /\ activeTab = "pascal" =>
           pascalProgress = <<(IF currentStep + 1 > 0 THEN currentStep + 1 ELSE 0), LastTotal>>

C9_Witness ==
    /\ lastOp = "tick"
    /\ currentStep = 2
    /\ notified = << <<2, LastTotal>> >>
    /\ pascalProgress = <<3, LastTotal>>

\* C10: a manual step emits no completion signal, also when it moves stepIndex
\* to totalSteps(n) - 1; a task that emits one is a tick.
C10_ManualStepNeverCompletes ==
    /\ lastOp = "step" => completed = 0
    /\ completed # 0 => lastOp = "tick"

C10_Witness ==
    /\ lastOp = "step"
    /\ prevStep = LastTotal - 2
    /\ currentStep = LastTotal - 1
    /\ completed = 0

\* C11: when play is pressed at the last step a timer is started; its first
\* tick emits the completion signal, leaves stepIndex at the last step and
\* leaves playback Stopped with no timer, so the animation does not restart.
C11_PlayAtEndCompletesOnce ==
    playedAtEnd =>
        /\ currentStep = LastTotal - 1
        /\ lastOp = "play" => (pascalPlaying /\ intervals # {} /\ completed = 0)
        /\ lastOp = "tick" =>
               /\ completed = 1
               /\ prevStep = LastTotal - 1
               /\ ~pascalPlaying
               /\ intervals = {}

C11_Witness ==
    /\ playedAtEnd
    /\ lastOp = "tick"
    /\ completed = 1
    /\ currentStep = LastTotal - 1

\* C12: under fair firing of the timer, from every state in which playback is
\* Playing on the Pascal tab, either one of pause, manual step, reset,
\* row-count change, header reset or navigation happens, or stepIndex reaches
\* the last step and playback is Stopped by the completion with no timer left;
\* the task after a completion is never a tick.
C12_AutoPlayHalts ==
    /\ (pascalPlaying /\ activeTab = "pascal" /\ lastOp \in {"play", "tick", "speed"})
           ~> \/ lastOp \in {"pause", "step", "reset", "rows", "headerReset", "navigate"}
              \/ /\ completed = 1
                 /\ ~pascalPlaying
                 /\ currentStep = LastTotal - 1
                 /\ intervals = {}
    /\ [][completed = 1 => (lastOp' # "tick" /\ currentStep' \in {currentStep, -1})]_vars

C12_Witness ==
    /\ lastOp = "tick"
    /\ completed = 1
    /\ ~pascalPlaying
    /\ currentStep = LastTotal - 1
    /\ tickRun = LastTotal + 1
    /\ pascalRows = 3

\* C13 as claimed: a speed change while Playing leaves stepIndex and playback
\* unchanged and the pending timer stays live.
C13_SpeedKeepsPendingTick ==
    [][(lastOp' = "speed" /\ pascalPlaying /\ activeTab = "pascal") =>
          /\ currentStep' = currentStep
          /\ pascalPlaying'
          /\ intervals \subseteq intervals']_vars

\* C13 amended: a speed change while Playing leaves stepIndex and playback
\* unchanged, clears the pending timer and starts one new timer with delay
\* 600 / speed; every live timer has the delay of the current speed.
C13_SpeedRestartsTimer ==
    /\ [](\A t \in intervals : t.delay = BaseIntervalHalves \div animationSpeed)
    /\ [][(lastOp' = "speed" /\ pascalPlaying /\ activeTab = "pascal") =>
             /\ currentStep' = currentStep
             /\ pascalPlaying'
             /\ intervals \cap intervals' = {}
             /\ intervals' = {[total |-> LastTotal,
                               delay |-> BaseIntervalHalves \div animationSpeed']}]_vars

C13_Witness ==
    /\ lastOp = "speed"
    /\ prevPlaying
    /\ pascalPlaying
    /\ activeTab = "pascal"
    /\ currentStep = prevStep
    /\ currentStep >= 0
    /\ intervals # {}

\* C14: the reset button leaves stepIndex = -1, playback Stopped, no active
\* addition and no timer, draws the empty triangle, and does not change the
\* row count.
C14_ResetKeepsRows ==
    [][lastOp' = "reset" =>
          /\ currentStep' = -1
          /\ ~pascalPlaying'
          /\ activeAddition' = <<>>
          /\ intervals' = {}
          /\ pascalRows' = pascalRows
          /\ frames' = <<[rows |-> pascalRows, currentStep |-> -1, activeAddition |-> <<>>]>>
          /\ notified' = << <<-1, totalSteps(pascalRows)>> >>]_vars

C14_Witness ==
    /\ lastOp = "reset"
    /\ prevPlaying
    /\ prevStep > 0
    /\ currentStep = -1
    /\ pascalRows = 3

\* C15: for n in 1..10 and every cell (r, c) of the n-row triangle,
\* stepToCell(r(r+1)/2 + c) = (r, c), in particular (0,0) for step 0 and
\* (n-1, n-1) for step totalSteps(n) - 1, totalSteps(n) = n(n+1)/2, and both
\* passes of draw() give cell (r, c) the index r(r+1)/2 + c.
C15_StepToCellInvertsRowMajor ==
    LET n == fnInput.n
        r == fnInput.r
        c == fnInput.c
        k == (r * (r + 1)) \div 2 + c
    IN /\ fnOutput.fn = "totalSteps" => fnOutput.value = (n * (n + 1)) \div 2
       /\ fnOutput.fn = "stepToCell" =>
              /\ fnOutput.value = <<r, c>>
              /\ (r = n - 1 /\ c = n - 1) => k = (n * (n + 1)) \div 2 - 1
              /\ k = 0 => fnOutput.value = <<0, 0>>
       /\ fnOutput.fn = "draw" =>
              /\ fnOutput.value.cellPass = {k}
              /\ fnOutput.value.arrowPass = IF r >= 1 THEN {k} ELSE {}

C15_Witness ==
    /\ fnOutput.fn = "stepToCell"
    /\ fnInput = [n |-> 10, r |-> 9, c |-> 9]
    /\ fnOutput.value = <<9, 9>>

\* C16: for n in 1..10, buildPascal(n) has n rows, row r has r + 1 entries, its
\* first and last entries are 1, and every other entry is the sum of the two
\* entries above it.
C16_BuildPascalRecurrence ==
    fnOutput.fn = "buildPascal" =>
        LET t == fnOutput.value
        IN /\ Len(t) = fnInput.n
           /\ \A r \in 0 .. fnInput.n - 1 :
                  /\ Len(t[r + 1]) = r + 1
                  /\ t[r + 1][1] = 1
                  /\ t[r + 1][r + 1] = 1
                  /\ \A c \in 1 .. r - 1 : t[r + 1][c + 1] = t[r][c] + t[r][c + 1]

C16_Witness ==
    /\ fnOutput.fn = "buildPascal"
    /\ fnInput.n = 10
    /\ fnOutput.value[10][5] = 126

\* C17: with 3 rows the triangle is [[1],[1,1],[1,2,1]] and totalSteps is 6;
\* each advance moves one step on, the highlighted cell at step k is the k-th
\* of (0,0),(1,0),(1,1),(2,0),(2,1),(2,2); after every task the active addition
\* is absent except at step 4, where it is (2,1) and the formula drawn is
\* 1 + 1 = 2.
C17_ThreeRowScenario ==
    (activeTab = "pascal" /\ pascalRows = 3) =>
        /\ buildPascal(pascalRows) = << <<1>>, <<1, 1>>, <<1, 2, 1>> >>
        /\ totalSteps(pascalRows) = 6
        /\ (lastOp \in {"step", "tick"} /\ currentStep # prevStep) => currentStep = prevStep + 1
        /\ activeAddition = IF currentStep = 4 THEN <<2, 1>> ELSE <<>>
        /\ frames # <<>> =>
               LET last == frames[Len(frames)]
                   cells == DrawnCells(last)
               IN /\ last.currentStep = currentStep
                  /\ {<<x.row, x.col>> : x \in {y \in cells : y.glow}}
                         = IF currentStep < 0 THEN {}
                           ELSE {<< <<0, 0>>, <<1, 0>>, <<1, 1>>,
                                    <<2, 0>>, <<2, 1>>, <<2, 2>> >>[currentStep + 1]}
                  /\ {x.formula : x \in {y \in cells : y.formula # <<>>}}
                         = IF currentStep = 4 THEN {<<1, 1, 2>>} ELSE {}

C17_Witness ==
    /\ activeTab = "pascal"
    /\ pascalRows = 3
    /\ lastOp \in {"step", "tick"}
    /\ prevStep = 3
    /\ currentStep = 4
    /\ activeAddition = <<2, 1>>

\* C18: in every drawn frame a cell whose row-major step is greater than the
\* frame's stepIndex is drawn as a placeholder with the '?' marker and without
\* its value; a value is drawn only for a cell whose step is <= stepIndex.
C18_NoValueBeforeReveal ==
    \A i \in 1 .. Len(frames) :
        \A x \in DrawnCells(frames[i]) :
            /\ RowMajor(x.row, x.col) > frames[i].currentStep =>
                   (x.unknownMarker /\ x.number = <<>> /\ x.formula = <<>>)
            /\ x.number # <<>> =>
                   (RowMajor(x.row, x.col) <= frames[i].currentStep /\ ~x.unknownMarker)

C18_Witness ==
    \E i \in 1 .. Len(frames) :
        /\ frames[i].currentStep = 3
        /\ \E x \in DrawnCells(frames[i]) : x.unknownMarker /\ x.row = 2 /\ x.col = 1
        /\ \E x \in DrawnCells(frames[i]) : x.number = <<1>> /\ x.row = 2 /\ x.col = 0

\* C19: in every drawn frame an edge is drawn only between two revealed cells,
\* and it is emphasized only if its target is both the current-step cell and
\* the active addition.
C19_EmphasisOnlyOnCurrentStep ==
    \A i \in 1 .. Len(frames) :
        \A a \in DrawnArrows(frames[i]) :
            /\ RowMajor(a.to[1], a.to[2]) <= frames[i].currentStep
            /\ RowMajor(a.from[1], a.from[2]) <= frames[i].currentStep
            /\ a.emphasized =>
                   /\ RowMajor(a.to[1], a.to[2]) = frames[i].currentStep
                   /\ a.to = frames[i].activeAddition

\* C20: in every drawn frame the formula is drawn for at most one cell; that
\* cell is the current-step cell, it is interior, both parents are drawn with
\* their values, and the formula is left + right = value with the parents'
\* drawn values and the cell's drawn value.
C20_FormulaOnlyForCurrentInterior ==
    \A i \in 1 .. Len(frames) :
        LET cells == DrawnCells(frames[i])
            withFormula == {x \in cells : x.formula # <<>>}
        IN /\ Cardinality(withFormula) <= 1
           /\ \A x \in withFormula :
                  /\ RowMajor(x.row, x.col) = frames[i].currentStep
                  /\ 0 < x.col /\ x.col < x.row
                  /\ \E l \in cells, r \in cells :
                         /\ <<l.row, l.col>> = <<x.row - 1, x.col - 1>>
                         /\ <<r.row, r.col>> = <<x.row - 1, x.col>>
                         /\ l.number # <<>> /\ r.number # <<>>
                         /\ x.formula = <<l.number[1], r.number[1], x.number[1]>>
                         /\ l.number[1] = buildPascal(frames[i].rows)[x.row][x.col]
                         /\ r.number[1] = buildPascal(frames[i].rows)[x.row][x.col + 1]
                         /\ l.number[1] + r.number[1] = x.number[1]

C20_Witness ==
    \E i \in 1 .. Len(frames) :
        /\ frames[i].currentStep = 7
        /\ \E x \in DrawnCells(frames[i]) : x.formula = <<1, 2, 3>> /\ x.row = 3 /\ x.col = 1

\* C21: in every drawn frame every revealed edge cell (col = 0 or col = row)
\* is drawn with the edge-cell treatment (border and number in the colour of
\* the ones), whether or not it is the current-step cell, and no interior cell
\* is drawn with it.
C21_EdgeCellsKeepTreatment ==
    \A i \in 1 .. Len(frames) :
        \A x \in DrawnCells(frames[i]) :
            ~x.unknownMarker =>
                ((x.col = 0 \/ x.col = x.row) <=> (x.border = "one" /\ x.numberColor = "one"))

\* C25: every stepToCell call is made with a step in [0, totalSteps(n) - 1]
\* for the current row count n, and the cell it returns lies inside the
\* current triangle.
C25_StepToCellCalledInRange ==
    \A i \in 1 .. Len(cellCalls) :
        /\ 0 <= cellCalls[i]
        /\ cellCalls[i] <= totalSteps(pascalRows) - 1
        /\ LET cell == stepToCell(cellCalls[i])
           IN cell[1] < pascalRows /\ cell[2] <= cell[1]

C25_Witness ==
    /\ cellCalls = <<totalSteps(pascalRows) - 1>>
    /\ lastOp = "step"
    /\ prevStep = totalSteps(pascalRows) - 2

\* C26: whenever a new Pascal instance has been mounted (by reset, row-count
\* change, header reset, or on arriving at the Pascal tab) playback is Stopped
\* and no timer runs.
C26_MountedStopped ==
    (activeTab = "pascal" /\ lastOp \in {"reset", "rows", "headerReset", "navigate"}) =>
        (~pascalPlaying /\ intervals = {})

\* C27: a newly mounted instance is at stepIndex -1 whatever the step-trigger
\* counter is, it has called neither stepToCell nor onComplete, and stepIndex
\* leaves -1 only by a step or a tick.
C27_NoStepFromEarlierIntents ==
    /\ (activeTab = "pascal" /\ lastOp \in {"reset", "rows", "headerReset", "navigate"}) =>
           /\ currentStep = -1
           /\ lastStepTrigger = pascalStepTrigger
           /\ notified = <<Notification(-1, LastTotal)>>
           /\ cellCalls = <<>>
           /\ completed = 0
    /\ (prevStep = -1 /\ currentStep # -1) => lastOp \in {"step", "tick"}

C27_Witness ==
    /\ activeTab = "pascal"
    /\ lastOp \in {"reset", "rows"}
    /\ pascalStepTrigger = 2
    /\ prevStep = 1
    /\ currentStep = -1

\* C28: after a step intent playback is Stopped and no timer is live, and
\* stepIndex is one more than before (unchanged at the last step).
C28_StepStopsPlayback ==
    lastOp = "step" =>
        /\ ~pascalPlaying
        /\ intervals = {}
        /\ currentStep = Min(prevStep + 1, LastTotal - 1)

C28_Witness ==
    /\ lastOp = "step"
    /\ prevPlaying
    /\ prevStep >= 0
    /\ currentStep = prevStep + 1
    /\ intervals = {}

\* C22: stepToCell called with a step outside [0, totalSteps(n) - 1] reports
\* an out-of-range error: it neither returns a cell nor fails to return.
C22_OutOfRangeStepRejected ==
    (fnOutput.fn = "stepToCell"
     /\ (fnInput.step < 0 \/ fnInput.step > totalSteps(fnInput.n) - 1)) =>
        fnOutput.value.outcome = "error"

\* C23: a row-count change requested with n < 1 is reported as an error and
\* leaves the row count, playback and the mounted instance as they were.
C23_InvalidRowCountRejected ==
    (fnOutput.fn = "setRows" /\ fnInput.n < 1) =>
        /\ fnOutput.value.reported
        /\ fnOutput.value.host.pascalRows = pascalRows
        /\ fnOutput.value.host.pascalPlaying = pascalPlaying
        /\ fnOutput.value.host.pascalResetKey = pascalResetKey

\* C24: when the viewport width or height is zero, draw() issues no drawing
\* command for a cell, an edge, a formula or the progress text.
C24_ZeroViewportDrawsNothing ==
    (fnOutput.fn = "draw" /\ (fnInput.w = 0 \/ fnInput.h = 0)) =>
        /\ fnOutput.value.commands.cells = <<>>
        /\ fnOutput.value.commands.arrows = <<>>
        /\ fnOutput.value.commands.title = <<>>

\* C30: for every integer, decimal or fraction a/b with b # 0, the membership
\* list returned by classifyNumber is upward-closed: N implies Z, Z implies D,
\* D implies Q, Q implies R.
C30_MembershipUpwardClosed ==
    (fnOutput.fn = "classify"
     /\ fnInput.kind \in {"fraction", "decimal"}
     /\ (fnInput.kind = "fraction" => fnInput.den # 0)) =>
        LET sets == {fnOutput.value[i] : i \in 1 .. Len(fnOutput.value)}
        IN /\ "N" \in sets => "Z" \in sets
           /\ "Z" \in sets => "D" \in sets
           /\ "D" \in sets => "Q" \in sets
           /\ "Q" \in sets => "R" \in sets

\* C29: no timer started by a cleaned-up run of the SetsInclusionAnimation
\* render effect is live: none of its timeouts is pending, and no breathing
\* interval of such a run is running or started later.
C29_NoTimerAfterCleanup ==
    /\ ~inclusion.staleIntro
    /\ ~inclusion.stalePending
    /\ ~inclusion.leaked
    /\ inclusion.ticked # "leaked"

====
